---- MODULE Spec2Model ----
(***************************************************************************)
(* The agent side of the FOSSology scheduler protocol                      *)
(* (src/lib/libfossscheduler.c): fo_scheduler_connect, fo_scheduler_next,  *)
(* fo_scheduler_current, fo_scheduler_heart, fo_scheduler_disconnect and   *)
(* the SIGALRM handler fo_heartbeat, together with the two byte streams    *)
(* (stdin, stdout) and the scheduler that feeds stdin.                     *)
(*                                                                         *)
(* A step of the model is one statement group of the source; the handler   *)
(* fo_heartbeat runs between two steps of the main flow and never inside a *)
(* call of stdio, so every line is written whole (the single-threaded      *)
(* signal model of the protocol).                                          *)
(* signal() has the semantics glibc gives it: the handler stays installed  *)
(* after it has run, and a read() that the signal interrupts is restarted, *)
(* so that fgets goes on waiting.                                          *)
(*                                                                         *)
(* Text is a sequence of one-character strings.  A line of the inbound     *)
(* stream ends with "\n"; the content of a C string is the part of a char  *)
(* array before its first NUL.                                             *)
(***************************************************************************)
EXTENDS Integers, Sequences, FiniteSets, TLC

VARIABLES
  pc,               \* position of the agent's main flow
  argc, argv,       \* the argument count and vector handed to connect
  items_processed,  \* int items_processed
  buffer,           \* char buffer[2048]; bytes past Len(buffer) are still 0
  valid,            \* int valid
  found,            \* int found
  verbose,          \* int verbose
  reg,              \* the value loaded by items_processed += i, before its store
  alarm,            \* TRUE while a SIGALRM for fo_heartbeat is scheduled
  stdin,            \* bytes delivered on the inbound stream and not yet read
  stdinClosed,      \* the scheduler has closed the inbound stream
  pending,          \* lines the scheduler has still to send
  stdout,           \* lines held in the stdio buffer of stdout
  outbound,         \* lines that have reached the scheduler
  linebuf,          \* stdout is line buffered (a terminal) rather than fully buffered
  exitStatus,       \* status handed to exit(), -1 while the process runs
  ret,              \* value returned by the latest completed fo_scheduler_next()
  consumed,         \* what the fgets calls of the current or latest next() call read
  written,          \* what the current or latest next() call handed to fprintf
  lastRead,         \* what the latest fgets read: a string, or EOF
  curLine,          \* the inbound line the latest successful fgets took bytes from
  midLine,          \* the latest successful fgets stopped before the end of curLine
  verboseLine,      \* the latest string read that began with VERBOSE
  progress,         \* the arguments of the fo_scheduler_heart calls so far, in order
  beatDuring        \* what fo_heartbeat has run inside of and is still going on:
                    \* "fgets" (waiting for a line), "heart" (between the load
                    \* and the store of items_processed += i) or "none"

\* The variables that only record what has happened.
history == <<ret, consumed, written, lastRead, curLine, midLine, verboseLine>>

\* The variables that record what the timer and fo_scheduler_heart have done.
trace == <<progress, beatDuring>>

vars == <<pc, argc, argv, items_processed, buffer, valid, found, verbose, reg,
          alarm, stdin, stdinClosed, pending, stdout, outbound, linebuf,
          exitStatus, history, trace>>

-----------------------------------------------------------------------------
(* Program constants *)

BufSize == 2048                      \* sizeof(buffer)
SVN_REV == "SVN_REV Unknown"
SchedulerStart == "--scheduler_start"
NUL == "NUL"                         \* the byte '\0'
NULL == <<"NULL">>                   \* the null pointer, as a returned char*
EOF == <<"EOF">>                     \* fgets found the stream closed
NoArg == "(null)"                    \* a null entry of argv

(* Bounds of the model *)

MaxLines == 2        \* lines the scheduler sends in one session
MaxBeats == 1        \* heartbeats that fire in one session
MaxItems == 1        \* largest value of items_processed
MaxStep == 1         \* largest argument of fo_scheduler_heart

-----------------------------------------------------------------------------
(* Text *)

Min(a, b) == IF a < b THEN a ELSE b

\* The command words of the protocol.
CLOSE == <<"C", "L", "O", "S", "E">>
END == <<"E", "N", "D">>
VERBOSE == <<"V", "E", "R", "B", "O", "S", "E">>
VERSION == <<"V", "E", "R", "S", "I", "O", "N">>

\* The lines the scheduler may send: lines that fit the buffer, and two
\* lines longer than the buffer.
ShortLines ==
  { <<"a", "\n">>,
    CLOSE \o <<"\n">>,
    END \o <<"\n">>,
    VERBOSE \o <<" ", "5", "\n">>,
    VERBOSE \o <<" ", "x", "\n">>,
    VERSION \o <<"\n">> }
Filler == [i \in 1..(BufSize - 1) |-> "x"]
LongLines ==
  { Filler \o <<"\n">>,
    Filler \o CLOSE \o <<"\n">> }
Lines == ShortLines \cup LongLines

RECURSIVE SeqsUpTo(_, _)
SeqsUpTo(S, n) ==
  IF n = 0 THEN {<<>>}
  ELSE LET shorter == SeqsUpTo(S, n - 1)
       IN shorter \cup {Append(s, x) : s \in shorter, x \in S}

\* The content of the C string held in array b: the bytes before the first NUL.
CStr(b) ==
  LET nuls == {i \in 1..Len(b) : b[i] = NUL}
  IN IF nuls = {} THEN b
     ELSE SubSeq(b, 1, (CHOOSE i \in nuls : \A j \in nuls : i <= j) - 1)

\* Byte i (counted from 1) of array b; bytes never written are 0.
ByteAt(b, i) == IF i <= Len(b) THEN b[i] ELSE NUL

\* Array b after a string s and its terminating NUL are stored at its start.
StoreStr(b, s) == s \o <<NUL>> \o SubSeq(b, Len(s) + 2, Len(b))

\* strncmp(s, lit, n) == 0 for a literal of exactly n characters.
strncmp0(b, lit, n) ==
  LET s == CStr(b) IN Len(s) >= n /\ SubSeq(s, 1, n) = lit

Digits == <<"0", "1", "2", "3", "4", "5", "6", "7", "8", "9">>
IsDigit(c) == \E d \in 1..10 : Digits[d] = c
DigitVal(c) == (CHOOSE d \in 1..10 : Digits[d] = c) - 1
IsSpace(c) == c \in {" ", "\t", "\n", "\r"}

RECURSIVE AtoiDigits(_, _, _)
AtoiDigits(b, i, acc) ==
  IF IsDigit(ByteAt(b, i)) THEN AtoiDigits(b, i + 1, 10 * acc + DigitVal(ByteAt(b, i)))
  ELSE acc

RECURSIVE AtoiFrom(_, _)
AtoiFrom(b, i) ==
  IF IsSpace(ByteAt(b, i)) THEN AtoiFrom(b, i + 1)
  ELSE IF ByteAt(b, i) = "-" THEN 0 - AtoiDigits(b, i + 1, 0)
  ELSE IF ByteAt(b, i) = "+" THEN AtoiDigits(b, i + 1, 0)
  ELSE AtoiDigits(b, i, 0)

\* atoi(&b[k]) with k counted from 0 as in C.
atoi(b, k) == AtoiFrom(b, k + 1)

-----------------------------------------------------------------------------
(* stdio *)

\* Number of bytes fgets(buffer, size, stdin) takes from stream s: up to and
\* including the first newline, and at most size - 1.
FgetsCount(s, size) ==
  LET nl == {i \in 1..Len(s) : s[i] = "\n"}
      upto == IF nl = {} THEN Len(s) ELSE CHOOSE i \in nl : \A j \in nl : i <= j
  IN Min(upto, size - 1)

\* fgets returns instead of blocking.
FgetsReady(s, size) ==
  \/ stdinClosed
  \/ Len(s) >= size - 1
  \/ \E i \in 1..Len(s) : s[i] = "\n"

OutLine(t) == [tag |-> t, n |-> 0]
HeartLine(n) == [tag |-> "HEART", n |-> n]

\* The stdio buffer and the stream after fprintf(stdout, line).
Fprintf(buf, out, line) ==
  IF linebuf THEN [buf |-> <<>>, out |-> out \o buf \o <<line>>]
  ELSE [buf |-> Append(buf, line), out |-> out]

\* The stdio buffer and the stream after fflush(stdout).
Fflush(buf, out) == [buf |-> <<>>, out |-> out \o buf]

Beats(s) == Cardinality({i \in 1..Len(s) : s[i].tag = "HEART"})

-----------------------------------------------------------------------------
(* The initial state: the process has been started and main is about to    *)
(* call fo_scheduler_connect.                                              *)

ArgLists ==
  { <<"agent">>,
    <<"agent", SchedulerStart, "-v">>,
    <<"agent", "-v", SchedulerStart>> }

\* What the scheduler sends in a session.
Streams == SeqsUpTo(ShortLines, MaxLines) \cup {<<l>> : l \in LongLines}

\* The state when main() is entered, for the sessions in which the process is
\* started with one of the argument lists args and the scheduler sends one of
\* the streams.
InitWith(args, streams) ==
  /\ pc = "main"
  /\ \E a \in args : argc = Len(a) /\ argv = Append(a, NoArg)
  /\ items_processed = 0
  /\ buffer = <<>>
  /\ valid = 0
  /\ found = 0
  /\ verbose = 0
  /\ reg = 0
  /\ alarm = FALSE
  /\ stdin = <<>>
  /\ stdinClosed = FALSE
  /\ pending \in streams
  /\ stdout = <<>>
  /\ outbound = <<>>
  /\ linebuf \in BOOLEAN
  /\ exitStatus = -1
  /\ ret = NULL
  /\ consumed = <<>>
  /\ written = <<>>
  /\ lastRead = <<>>
  /\ curLine = <<>>
  /\ midLine = FALSE
  /\ verboseLine = <<>>
  /\ progress = <<>>
  /\ beatDuring = "none"

Init == InitWith(ArgLists, Streams)

-----------------------------------------------------------------------------
(* fo_scheduler_connect *)

\* SentinelLast accepting the sentinel at any position: a fault that
\* C8_SentinelStripped must detect.
SentinelAnywhere(n, v) == \E i \in 1..n : v[i] = SchedulerStart

\* strcmp(argv[(*argc) - 1], "--scheduler_start") == 0
SentinelLast(n, v) == v[n] = SchedulerStart

\* found = 0; the test for the sentinel, and what its branch does.
ConnectSentinel ==
  /\ pc = "main"
  /\ IF SentinelLast(argc, argv)
     THEN LET w == Fprintf(stdout, outbound, OutLine(SVN_REV))
          IN /\ stdout' = w.buf
             /\ outbound' = w.out
             /\ argc' = argc - 1
             /\ argv' = [argv EXCEPT ![argc] = NoArg]
             /\ found' = 1
     ELSE /\ found' = 0
          /\ UNCHANGED <<stdout, outbound, argc, argv>>
  /\ pc' = "connect_init"
  /\ UNCHANGED <<items_processed, buffer, valid, verbose, reg, alarm, stdin,
                 stdinClosed, pending, linebuf, exitStatus, history, trace>>

\* initialize memory associated with agent connection
ConnectInit ==
  /\ pc = "connect_init"
  /\ items_processed' = 0
  /\ buffer' = <<>>
  /\ valid' = 0
  /\ verbose' = 0
  /\ pc' = "connect_ok"
  /\ UNCHANGED <<argc, argv, found, reg, alarm, stdin, stdinClosed, pending,
                 stdout, outbound, linebuf, exitStatus, history, trace>>

\* if(found): OK, fflush
ConnectOK ==
  /\ pc = "connect_ok"
  /\ IF found # 0
     THEN LET w == Fprintf(stdout, outbound, OutLine("OK"))
              f == Fflush(w.buf, w.out)
          IN /\ stdout' = f.buf
             /\ outbound' = f.out
             /\ pc' = "connect_alarm"
     ELSE /\ pc' = "idle"
          /\ UNCHANGED <<stdout, outbound>>
  /\ UNCHANGED <<argc, argv, items_processed, buffer, valid, found, verbose,
                 reg, alarm, stdin, stdinClosed, pending, linebuf, exitStatus,
                 history, trace>>

\* signal(SIGALRM, fo_heartbeat); alarm(ALARM_SECS)
ConnectAlarm ==
  /\ pc = "connect_alarm"
  /\ alarm' = TRUE
  /\ pc' = "idle"
  /\ UNCHANGED <<argc, argv, items_processed, buffer, valid, found, verbose,
                 reg, stdin, stdinClosed, pending, stdout, outbound, linebuf,
                 exitStatus, history, trace>>

fo_scheduler_connect == ConnectSentinel \/ ConnectInit \/ ConnectOK \/ ConnectAlarm

-----------------------------------------------------------------------------
(* fo_heartbeat: the SIGALRM handler *)

\* HeartbeatDue with the timer running from the moment the sentinel is found:
\* a fault that C7_HandshakeFirst must detect.
HeartbeatDueOnceFound == found # 0 /\ pc # "exited"

\* What the handler is about to run inside of.
BeatDuring ==
  IF pc = "next_fgets" /\ ~FgetsReady(stdin, BufSize) THEN "fgets"
  ELSE IF pc = "heart_store" THEN "heart"
  ELSE beatDuring

\* SIGALRM is delivered to the handler: the alarm set by connect (or by the
\* handler itself) has run out and the process is alive.
HeartbeatDue == alarm /\ pc # "exited"

\* Heartbeat reporting the items processed since the previous heartbeat, the
\* counter starting again from 0: a fault that C19_NoLostUpdate must detect.
HeartbeatSinceLast(cap) ==
  /\ HeartbeatDue
  /\ Beats(outbound) < cap
  /\ LET w == Fprintf(stdout, outbound, HeartLine(items_processed))
         f == Fflush(w.buf, w.out)
     IN /\ stdout' = f.buf
        /\ outbound' = f.out
  /\ items_processed' = 0
  /\ alarm' = TRUE
  /\ beatDuring' = BeatDuring
  /\ UNCHANGED <<pc, argc, argv, buffer, valid, found, verbose, reg,
                 stdin, stdinClosed, pending, linebuf, exitStatus, history,
                 progress>>

\* Heartbeat without its call of alarm(): a fault that C14_HeartbeatGoesOn
\* must detect.
HeartbeatOnce(cap) ==
  /\ HeartbeatDue
  /\ Beats(outbound) < cap
  /\ LET w == Fprintf(stdout, outbound, HeartLine(items_processed))
         f == Fflush(w.buf, w.out)
     IN /\ stdout' = f.buf
        /\ outbound' = f.out
  /\ alarm' = FALSE
  /\ beatDuring' = BeatDuring
  /\ UNCHANGED <<pc, argc, argv, items_processed, buffer, valid, found,
                 verbose, reg, stdin, stdinClosed, pending, linebuf,
                 exitStatus, history, progress>>

\* Heartbeat with the signal breaking off a waiting fgets, which then returns
\* NULL as at the end of the stream: a fault that C15_HeartbeatFrame must
\* detect.
HeartbeatInterrupts(cap) ==
  /\ HeartbeatDue
  /\ Beats(outbound) < cap
  /\ LET w == Fprintf(stdout, outbound, HeartLine(items_processed))
         f == Fflush(w.buf, w.out)
     IN /\ stdout' = f.buf
        /\ outbound' = f.out
  /\ alarm' = TRUE
  /\ beatDuring' = BeatDuring
  /\ IF pc = "next_fgets" /\ ~FgetsReady(stdin, BufSize)
     THEN pc' = "idle" /\ valid' = 0 /\ ret' = NULL
     ELSE UNCHANGED <<pc, valid, ret>>
  /\ UNCHANGED <<argc, argv, items_processed, buffer, found, verbose, reg,
                 stdin, stdinClosed, pending, linebuf, exitStatus, consumed,
                 written, lastRead, curLine, midLine, verboseLine, progress>>

\* The handler, in a session in which at most cap heartbeats fire.
Heartbeat(cap) ==
  /\ HeartbeatDue
  /\ Beats(outbound) < cap
  /\ LET w == Fprintf(stdout, outbound, HeartLine(items_processed))
         f == Fflush(w.buf, w.out)
     IN /\ stdout' = f.buf
        /\ outbound' = f.out
  /\ alarm' = TRUE
  /\ beatDuring' = BeatDuring
  /\ UNCHANGED <<pc, argc, argv, items_processed, buffer, valid, found,
                 verbose, reg, stdin, stdinClosed, pending, linebuf,
                 exitStatus, history, progress>>

fo_heartbeat == Heartbeat(MaxBeats)

-----------------------------------------------------------------------------
(* fo_scheduler_heart(i): items_processed += i, a load and a store *)

\* HeartLoadOf for items_processed = i in place of items_processed += i: a
\* fault that C11_HeartbeatSum must detect.
HeartLoadOfAssigns(args, max) ==
  /\ pc = "idle"
  /\ \E i \in args :
       /\ items_processed + i <= max
       /\ reg' = i
       /\ progress' = Append(progress, i)
  /\ pc' = "heart_store"
  /\ UNCHANGED <<argc, argv, items_processed, buffer, valid, found, verbose,
                 alarm, stdin, stdinClosed, pending, stdout, outbound, linebuf,
                 exitStatus, history, beatDuring>>

\* The load of items_processed += i, for an argument i of the set args that
\* keeps the counter within max.
HeartLoadOf(args, max) ==
  /\ pc = "idle"
  /\ \E i \in args :
       /\ items_processed + i <= max
       /\ reg' = items_processed + i
       /\ progress' = Append(progress, i)
  /\ pc' = "heart_store"
  /\ UNCHANGED <<argc, argv, items_processed, buffer, valid, found, verbose,
                 alarm, stdin, stdinClosed, pending, stdout, outbound, linebuf,
                 exitStatus, history, beatDuring>>

HeartLoad == HeartLoadOf(1..MaxStep, MaxItems)

HeartStore ==
  /\ pc = "heart_store"
  /\ items_processed' = reg
  /\ reg' = 0
  /\ pc' = "idle"
  /\ beatDuring' = "none"
  /\ UNCHANGED <<argc, argv, buffer, valid, found, verbose, alarm, stdin,
                 stdinClosed, pending, stdout, outbound, linebuf, exitStatus,
                 history, progress>>

fo_scheduler_heart == HeartLoad \/ HeartStore

-----------------------------------------------------------------------------
(* fo_scheduler_disconnect *)

\* ByeLines without the test of found: a fault that C9_Standalone must detect.
ByeLinesAlways(f) == <<OutLine("BYE")>>

\* ByeLines printing nothing: a fault that C10_Disconnect must detect.
ByeLinesNever(f) == <<>>

\* What disconnect prints before it exits: if(found) BYE.
ByeLines(f) == IF f # 0 THEN <<OutLine("BYE")>> ELSE <<>>

\* if(found): BYE, fflush
DisconnectBye ==
  /\ pc = "idle"
  /\ IF ByeLines(found) # <<>>
     THEN LET w == Fprintf(stdout, outbound, ByeLines(found)[1])
              f == Fflush(w.buf, w.out)
          IN /\ stdout' = f.buf
             /\ outbound' = f.out
     ELSE UNCHANGED <<stdout, outbound>>
  /\ pc' = "disconnect_exit"
  /\ UNCHANGED <<argc, argv, items_processed, buffer, valid, found, verbose,
                 reg, alarm, stdin, stdinClosed, pending, linebuf, exitStatus,
                 history, trace>>

\* exit(0), which flushes stdout and ends the process (and its timer)
DisconnectExit ==
  /\ pc = "disconnect_exit"
  /\ LET f == Fflush(stdout, outbound)
     IN /\ stdout' = f.buf
        /\ outbound' = f.out
  /\ exitStatus' = 0
  /\ alarm' = FALSE
  /\ pc' = "exited"
  /\ UNCHANGED <<argc, argv, items_processed, buffer, valid, found, verbose,
                 reg, stdin, stdinClosed, pending, linebuf, history, trace>>

fo_scheduler_disconnect == DisconnectBye \/ DisconnectExit

-----------------------------------------------------------------------------
(* fo_scheduler_next and fo_scheduler_current *)

\* Branch without the test of what fgets returned: a fault that C3_EndOfWork
\* must detect.
BranchIgnoresEof(got, b) ==
  IF strncmp0(b, CLOSE, 5) THEN "close"
  ELSE IF strncmp0(b, END, 3) THEN "end"
  ELSE IF strncmp0(b, VERBOSE, 7) THEN "verbose"
  ELSE IF strncmp0(b, VERSION, 7) THEN "version"
  ELSE "data"

\* The branch of the if-chain taken after fgets; got is FALSE when fgets
\* returned NULL, b is the buffer.
Branch(got, b) ==
  IF ~got \/ strncmp0(b, CLOSE, 5) THEN "close"
  ELSE IF strncmp0(b, END, 3) THEN "end"
  ELSE IF strncmp0(b, VERBOSE, 7) THEN "verbose"
  ELSE IF strncmp0(b, VERSION, 7) THEN "version"
  ELSE "data"

\* BranchPrints without the acknowledgment of END: a fault that C4_EndAcked
\* must detect.
BranchPrintsNoAck(br) ==
  IF br = "version" THEN <<OutLine(SVN_REV)>> ELSE <<>>

\* BranchPrints answering only in a session started by the scheduler, as
\* connect and disconnect do: a fault that C20_SameStandalone must detect.
BranchPrintsIfFound(br) ==
  IF found = 0 THEN <<>>
  ELSE IF br = "end" THEN <<OutLine("OK")>>
  ELSE IF br = "version" THEN <<OutLine(SVN_REV)>>
  ELSE <<>>

\* What a branch hands to fprintf.
BranchPrints(br) ==
  IF br = "end" THEN <<OutLine("OK")>>
  ELSE IF br = "version" THEN <<OutLine(SVN_REV)>>
  ELSE <<>>

\* The branch calls fflush after its fprintf.
BranchFlushes(br) == br = "end"

\* BranchValid without the final valid = 1: a fault that C1_DataReturned must
\* detect.
BranchValidNeverSet(br, v) ==
  IF br \in {"close", "verbose", "version"} THEN 0 ELSE v

\* BranchValid with VERSION leaving valid alone, as END does: a fault that
\* C6_VersionEchoed must detect.
BranchValidVersionKeeps(br, v) ==
  IF br \in {"close", "verbose"} THEN 0
  ELSE IF br = "data" THEN 1
  ELSE v

\* valid after a branch, v being its value before.
BranchValid(br, v) ==
  IF br \in {"close", "verbose", "version"} THEN 0
  ELSE IF br = "data" THEN 1
  ELSE v

\* BranchVerbose reading its integer one byte too far: a fault that
\* C5_Verbosity must detect.
BranchVerboseOffByOne(br, b, v) == IF br = "verbose" THEN atoi(b, 9) ELSE v

\* verbose after a branch, v being its value before.
BranchVerbose(br, b, v) == IF br = "verbose" THEN atoi(b, 8) ELSE v

\* BranchReturns with the VERSION branch returning to the caller: a fault
\* that C18_NextReturns must detect.
BranchReturnsOnVersion(br) == br \in {"close", "data", "version"}

\* BranchReturns with the first branch reading on like a command: a fault
\* that C12_ClosedAtEof must detect.
BranchReturnsDataOnly(br) == br = "data"

\* The branch returns to the caller; the others call fo_scheduler_next again.
BranchReturns(br) == br \in {"close", "data"}

\* The agent calls fo_scheduler_next().
NextCall ==
  /\ pc = "idle"
  /\ pc' = "next_flush"
  /\ consumed' = <<>>
  /\ written' = <<>>
  /\ UNCHANGED <<argc, argv, items_processed, buffer, valid, found, verbose,
                 reg, alarm, stdin, stdinClosed, pending, stdout, outbound,
                 linebuf, exitStatus, ret, lastRead, curLine, midLine,
                 verboseLine, trace>>

\* fflush(stdout), the first statement of every (recursive) invocation
NextFlush ==
  /\ pc = "next_flush"
  /\ LET f == Fflush(stdout, outbound)
     IN /\ stdout' = f.buf
        /\ outbound' = f.out
  /\ pc' = "next_fgets"
  /\ UNCHANGED <<argc, argv, items_processed, buffer, valid, found, verbose,
                 reg, alarm, stdin, stdinClosed, pending, linebuf, exitStatus,
                 history, trace>>

\* fgets and the branch taken on what it read.  n is the number of bytes
\* fgets took, chunk the string it stored, b the buffer after it, br the
\* branch taken, w and f the output after the branch's fprintf and fflush.
NextRead ==
  /\ pc = "next_fgets"
  /\ FgetsReady(stdin, BufSize)
  /\ \E n \in {FgetsCount(stdin, BufSize)} :
     \E got \in {n > 0} :
     \E chunk \in {SubSeq(stdin, 1, n)} :
     \E b \in {IF got THEN StoreStr(buffer, chunk) ELSE buffer} :
     \E br \in {Branch(got, b)} :
     \E w \in {IF BranchPrints(br) = <<>> THEN [buf |-> stdout, out |-> outbound]
              ELSE Fprintf(stdout, outbound, BranchPrints(br)[1])} :
     \E f \in {IF BranchFlushes(br) THEN Fflush(w.buf, w.out) ELSE w} :
        /\ stdin' = SubSeq(stdin, n + 1, Len(stdin))
        /\ buffer' = b
        /\ stdout' = f.buf
        /\ outbound' = f.out
        /\ valid' = BranchValid(br, valid)
        /\ verbose' = BranchVerbose(br, b, verbose)
        /\ IF BranchReturns(br)
           THEN /\ pc' = "idle"
                /\ ret' = IF br = "data" THEN CStr(b) ELSE NULL
           ELSE /\ pc' = "next_flush"
                /\ ret' = ret
        /\ consumed' = Append(consumed, IF got THEN chunk ELSE EOF)
        /\ written' = written \o BranchPrints(br)
        /\ lastRead' = IF got THEN chunk ELSE EOF
        /\ curLine' = IF ~got \/ midLine THEN curLine
                      ELSE SubSeq(stdin, 1, FgetsCount(stdin, Len(stdin) + 1))
        /\ midLine' = IF got THEN chunk[n] # "\n" ELSE midLine
        /\ verboseLine' = IF got /\ Len(chunk) >= 7 /\ SubSeq(chunk, 1, 7) = VERBOSE
                          THEN chunk ELSE verboseLine
  /\ beatDuring' = "none"
  /\ UNCHANGED <<argc, argv, items_processed, found, reg, alarm, stdinClosed,
                 pending, linebuf, exitStatus, progress>>

fo_scheduler_next == NextCall \/ NextFlush \/ NextRead

\* return valid ? buffer : NULL
fo_scheduler_current == IF valid # 0 THEN CStr(buffer) ELSE NULL

-----------------------------------------------------------------------------
(* The scheduler's end of the inbound stream *)

SchedulerSend ==
  /\ ~stdinClosed
  /\ pc # "exited"
  /\ pending # <<>>
  /\ stdin' = stdin \o Head(pending)
  /\ pending' = Tail(pending)
  /\ UNCHANGED <<pc, argc, argv, items_processed, buffer, valid, found,
                 verbose, reg, alarm, stdinClosed, stdout, outbound, linebuf,
                 exitStatus, history, trace>>

SchedulerClose ==
  /\ ~stdinClosed
  /\ pc # "exited"
  /\ pending = <<>>
  /\ stdinClosed' = TRUE
  /\ UNCHANGED <<pc, argc, argv, items_processed, buffer, valid, found,
                 verbose, reg, alarm, stdin, pending, stdout, outbound,
                 linebuf, exitStatus, history, trace>>

-----------------------------------------------------------------------------

Next ==
  \/ ConnectSentinel
  \/ ConnectInit
  \/ ConnectOK
  \/ ConnectAlarm
  \/ fo_heartbeat
  \/ HeartLoad
  \/ HeartStore
  \/ DisconnectBye
  \/ DisconnectExit
  \/ NextCall
  \/ NextFlush
  \/ NextRead
  \/ SchedulerSend
  \/ SchedulerClose

Spec == Init /\ [][Next]_vars

-----------------------------------------------------------------------------
(* Sessions that exercise the timer: few inbound lines, several heartbeats  *)
(* and several calls of fo_scheduler_heart.                                 *)

MaxTimerBeats == 2     \* heartbeats that fire in one such session
MaxTimerItems == 7     \* largest value of items_processed in one such session
TimerSteps == {3, 4}   \* the arguments of fo_scheduler_heart

TimerArgLists == {<<"agent">>, <<"agent", SchedulerStart>>}
TimerStreams ==
  { <<>>,
    <<CLOSE \o <<"\n">>>>,
    <<END \o <<"\n">>, VERBOSE \o <<" ", "5", "\n">>, VERSION \o <<"\n">>,
      <<"a", "\n">>>> }

InitTimer == InitWith(TimerArgLists, TimerStreams)

TimerBeat == Heartbeat(MaxTimerBeats)
TimerLoad == HeartLoadOf(TimerSteps, MaxTimerItems)

NextTimer ==
  \/ ConnectSentinel
  \/ ConnectInit
  \/ ConnectOK
  \/ ConnectAlarm
  \/ TimerBeat
  \/ TimerLoad
  \/ HeartStore
  \/ DisconnectBye
  \/ DisconnectExit
  \/ NextCall
  \/ NextFlush
  \/ NextRead
  \/ SchedulerSend
  \/ SchedulerClose

SpecTimer == InitTimer /\ [][NextTimer]_vars

\* The timer runs out ALARM_SECS after alarm() was called, and the main flow
\* goes on whenever it can: fflush returns, and fgets returns once a line or
\* the end of the stream is there.  Nothing obliges the agent to call
\* anything, nor the scheduler to send anything.
SpecTimerFair ==
  /\ SpecTimer
  /\ WF_vars(TimerBeat)
  /\ WF_vars(NextFlush)
  /\ WF_vars(NextRead)

-----------------------------------------------------------------------------
(* Properties *)

BeginsWith(s, w) == Len(s) >= Len(w) /\ SubSeq(s, 1, Len(w)) = w

\* The class of what a read returned, by the protocol's prefixes in their
\* priority order; a closed stream counts as Close.
ClassOf(r) ==
  IF r = EOF \/ BeginsWith(r, CLOSE) THEN "Close"
  ELSE IF BeginsWith(r, END) THEN "End"
  ELSE IF BeginsWith(r, VERBOSE) THEN "Verbose"
  ELSE IF BeginsWith(r, VERSION) THEN "Version"
  ELSE "Data"

\* A step in which fgets returns.
ReadStep == pc = "next_fgets" /\ pc' # "next_fgets"

\* The main flow is between two calls of fo_scheduler_next.
BetweenCalls == pc \in {"idle", "heart_store", "disconnect_exit"}

\* Everything written to stdout so far, flushed or not.
AllOutput == outbound \o stdout

\* The number of lines of output s that are the line t.
Tagged(s, t) == Cardinality({i \in 1..Len(s) : s[i].tag = t})

\* The number of strings of s that begin with the word w.
Starting(s, w) == Cardinality({i \in 1..Len(s) : BeginsWith(s[i], w)})

\* A line of the form VERBOSE, a separator, an integer.
VerboseForm(l) ==
  /\ BeginsWith(l, VERBOSE)
  /\ Len(l) >= 10
  /\ l[8] \in {" ", "\t"}
  /\ \A i \in 9..(Len(l) - 1) : IsDigit(l[i])
  /\ l[Len(l)] = "\n"

\* A line that begins with none of CLOSE, END, VERSION and is not of the form
\* "VERBOSE <n>".
DataAsClaimed(l) ==
  /\ ~BeginsWith(l, CLOSE)
  /\ ~BeginsWith(l, END)
  /\ ~BeginsWith(l, VERSION)
  /\ ~VerboseForm(l)

\* A line of at most BufSize - 1 bytes that begins with none of the four
\* command words.
DataLine(l) ==
  /\ Len(l) < BufSize
  /\ ~BeginsWith(l, CLOSE)
  /\ ~BeginsWith(l, END)
  /\ ~BeginsWith(l, VERBOSE)
  /\ ~BeginsWith(l, VERSION)

\* C1 as the specification words it: every line that does not begin with
\* CLOSE, END or VERSION and is not of the form "VERBOSE <n>" is returned
\* verbatim by the next() call that reads it, and current() returns the same
\* text until the following next() call.
C1_AsClaimed ==
  [][ /\ (ReadStep /\ lastRead' # EOF /\ ~midLine /\ DataAsClaimed(curLine'))
           => (pc' = "idle" /\ ret' = curLine' /\ fo_scheduler_current' = curLine')
      /\ (BetweenCalls /\ BetweenCalls' /\ DataAsClaimed(curLine) /\ ret = curLine)
           => fo_scheduler_current' = curLine ]_vars

\* C1, amended: every line of at most BufSize - 1 bytes (its newline
\* included) that does not begin with CLOSE, END, VERBOSE or VERSION is
\* returned verbatim by the next() call that reads it, and current() returns
\* the same text until the following next() call.
C1_DataReturned ==
  [][ /\ (ReadStep /\ lastRead' # EOF /\ ~midLine /\ DataLine(curLine'))
           => (pc' = "idle" /\ ret' = curLine' /\ fo_scheduler_current' = curLine')
      /\ (BetweenCalls /\ BetweenCalls' /\ DataLine(curLine) /\ ret = curLine)
           => fo_scheduler_current' = curLine ]_vars

C1_Witness ==
  /\ pc = "heart_store"
  /\ curLine = <<"a", "\n">>
  /\ ret = curLine
  /\ fo_scheduler_current = curLine
  /\ Beats(outbound) > 0

\* C2: valid is true exactly when the latest read returned a Data line; any
\* control line makes it false at once.
C2_AsClaimed ==
  (valid # 0) <=> (lastRead # <<>> /\ ClassOf(lastRead) = "Data")

\* The latest read found the stream closed or a line beginning with CLOSE.
EndOfWorkRead == lastRead = EOF \/ BeginsWith(lastRead, CLOSE)

\* C3: a next() call that reads a line beginning with CLOSE, or finds the
\* inbound stream closed, returns NULL; in both cases it writes nothing, and
\* current() returns NULL until the following next() call.
C3_EndOfWork ==
  [][ /\ (ReadStep /\ EndOfWorkRead')
           => /\ pc' = "idle"
              /\ ret' = NULL
              /\ fo_scheduler_current' = NULL
              /\ outbound' = outbound
              /\ stdout' = stdout
      /\ (BetweenCalls' /\ EndOfWorkRead')
           => (ret' = NULL /\ fo_scheduler_current' = NULL) ]_vars

C3_Witness ==
  /\ pc = "idle"
  /\ curLine = CLOSE \o <<"\n">>
  /\ lastRead = EOF
  /\ ret = NULL
  /\ fo_scheduler_current = NULL

\* C4: each line beginning with END that next() reads is answered by exactly
\* one OK, written and flushed in the same step, so before the following line
\* is read; the call goes on without returning, and a call that has passed k
\* END lines has written exactly k OK lines when it returns.
C4_EndAcked ==
  [][ /\ (ReadStep /\ BeginsWith(lastRead', END))
           => /\ outbound' = outbound \o stdout \o <<OutLine("OK")>>
              /\ stdout' = <<>>
              /\ pc' = "next_flush"
              /\ ret' = ret
      /\ (pc \in {"next_flush", "next_fgets"} /\ ~(ReadStep /\ BeginsWith(lastRead', END)))
           => Tagged(AllOutput', "OK") = Tagged(AllOutput, "OK")
      /\ ReadStep => stdout = <<>>
      /\ (ReadStep /\ pc' = "idle")
           => /\ Tagged(written', "OK") = Starting(consumed', END)
              /\ ~BeginsWith(ret', END) ]_vars

C4_Witness ==
  /\ pc = "idle"
  /\ consumed = <<END \o <<"\n">>, <<"a", "\n">>>>
  /\ written = <<OutLine("OK")>>
  /\ ret = <<"a", "\n">>
  /\ Tagged(outbound, "OK") = 1 + found

\* The integer a VERBOSE line carries after the word and one separator; 0 when
\* what stands there is not a number.
RECURSIVE Decimal(_)
Decimal(t) ==
  IF t = <<>> THEN 0
  ELSE 10 * Decimal(SubSeq(t, 1, Len(t) - 1)) + DigitVal(t[Len(t)])

VerboseArg(l) ==
  LET t == SubSeq(l, 9, Len(l) - 1)
  IN IF t # <<>> /\ \A i \in 1..Len(t) : IsDigit(t[i]) THEN Decimal(t) ELSE 0

\* C5: verbose is at all times the integer of the latest VERBOSE line read
\* since connect (0 when there was none or its argument is not a number), and
\* next() does not return on a VERBOSE line.
C5_Verbosity ==
  /\ verbose = (IF verboseLine = <<>> THEN 0 ELSE VerboseArg(verboseLine))
  /\ BeginsWith(lastRead, VERBOSE) => pc \in {"next_flush", "next_fgets"}
  /\ BetweenCalls => ~BeginsWith(ret, VERBOSE)

C5_Witness ==
  /\ pc = "idle"
  /\ consumed = <<VERBOSE \o <<" ", "5", "\n">>, <<"a", "\n">>>>
  /\ verbose = 5
  /\ ret = <<"a", "\n">>

\* C6: each line beginning with VERSION that next() reads is answered by
\* exactly one version line, which has been flushed when the following line
\* is read; valid is cleared, and the call goes on without returning.
C6_VersionEchoed ==
  [][ /\ (ReadStep /\ BeginsWith(lastRead', VERSION))
           => /\ AllOutput' = AllOutput \o <<OutLine(SVN_REV)>>
              /\ valid' = 0
              /\ fo_scheduler_current' = NULL
              /\ pc' = "next_flush"
              /\ ret' = ret
      /\ (pc \in {"next_flush", "next_fgets"} /\ ~(ReadStep /\ BeginsWith(lastRead', VERSION)))
           => Tagged(AllOutput', SVN_REV) = Tagged(AllOutput, SVN_REV)
      /\ ReadStep => stdout = <<>>
      /\ BeginsWith(lastRead', VERSION) => valid' = 0
      /\ (ReadStep /\ pc' = "idle")
           => /\ Tagged(written', SVN_REV) = Starting(consumed', VERSION)
              /\ ~BeginsWith(ret', VERSION) ]_vars

C6_Witness ==
  /\ pc = "idle"
  /\ consumed = <<VERSION \o <<"\n">>, <<"a", "\n">>>>
  /\ written = <<OutLine(SVN_REV)>>
  /\ ret = <<"a", "\n">>
  /\ Tagged(outbound, SVN_REV) = 1 + found

\* The two lines of the handshake.
Handshake == <<OutLine(SVN_REV), OutLine("OK")>>

C8_SentinelStripped ==
  [][ /\ (pc = "main" /\ pc' # "main")
           => LET last == argv[argc] = SchedulerStart
              IN /\ (found' # 0) <=> last
                 /\ last => /\ argc' = argc - 1
                            /\ SubSeq(argv', 1, argc') = SubSeq(argv, 1, argc - 1)
                            /\ argv'[argc] = NoArg
                 /\ ~last => (argc' = argc /\ argv' = argv)
      /\ pc # "main" => (found' = found /\ argc' = argc /\ argv' = argv) ]_vars

C8_Witness ==
  /\ pc = "idle"
  /\ found = 1
  /\ argc = 2
  /\ SubSeq(argv, 1, argc) = <<"agent", "-v">>

\* C9: in a session started without the sentinel found stays 0, the timer is
\* never armed, no HEART and no BYE line is ever written, and only the reads
\* of next() write anything: connect and disconnect write nothing.
C9_Standalone ==
  [][ /\ (pc = "main" /\ pc' # "main" /\ argv[argc] # SchedulerStart) => found' = 0
      /\ (pc # "main" /\ found = 0) => found' = 0
      /\ found' = 0
           => /\ ~alarm'
              /\ Tagged(AllOutput', "HEART") = 0
              /\ Tagged(AllOutput', "BYE") = 0
              /\ ~ReadStep => AllOutput' = AllOutput ]_vars

C9_Witness ==
  /\ pc = "exited"
  /\ found = 0
  /\ consumed = <<END \o <<"\n">>, EOF>>
  /\ outbound = <<OutLine("OK")>>

-----------------------------------------------------------------------------
(* The counter and the heartbeat *)

RECURSIVE Sum(_)
Sum(s) == IF s = <<>> THEN 0 ELSE Head(s) + Sum(Tail(s))

\* The sum of the arguments of the fo_scheduler_heart calls that have
\* returned.
total ==
  Sum(IF pc = "heart_store" THEN SubSeq(progress, 1, Len(progress) - 1)
      ELSE progress)

\* A step in which fo_heartbeat writes its line.
BeatStep == Beats(AllOutput') > Beats(AllOutput)

\* C11: every heartbeat line carries the sum of the arguments of the
\* fo_scheduler_heart calls completed since connect, and the heartbeat leaves
\* the counter as it is, so that two heartbeats with no call between them
\* report the same value.
C11_HeartbeatSum ==
  [][ BeatStep => /\ outbound'[Len(outbound')] = HeartLine(total)
                  /\ items_processed' = items_processed
                  /\ total' = total ]_vars

\* After calls with the arguments 3 and 4, two heartbeats in a row have
\* reported 7.
C11_Witness ==
  /\ total = 7
  /\ \E i \in 1..(Len(outbound) - 1) :
       outbound[i] = HeartLine(7) /\ outbound[i + 1] = HeartLine(7)

-----------------------------------------------------------------------------
(* After the end of the work *)

\* C12 as the specification words it: once a read has ended the work (a CLOSE
\* line or the end of the stream), every later read takes nothing from the
\* inbound stream and ends the work again.
C12_AsClaimed ==
  [][ (EndOfWorkRead /\ ReadStep)
        => /\ stdin' = stdin
           /\ EndOfWorkRead'
           /\ pc' = "idle"
           /\ ret' = NULL ]_vars

\* C12: once fgets has found the inbound stream closed, every later read finds
\* it closed again: it takes nothing from the stream, the call returns NULL at
\* once and current() returns NULL.
C12_ClosedAtEof ==
  [][ (lastRead = EOF /\ ReadStep)
        => /\ stdin' = stdin
           /\ lastRead' = EOF
           /\ consumed' = <<EOF>>
           /\ pc' = "idle"
           /\ ret' = NULL
           /\ fo_scheduler_current' = NULL ]_vars

\* A later next() call is at its fgets after an earlier call found the stream
\* closed and returned NULL.
C12_Witness ==
  /\ pc = "next_fgets"
  /\ consumed = <<>>
  /\ lastRead = EOF
  /\ ret = NULL
  /\ stdinClosed

-----------------------------------------------------------------------------
(* The farewell and the timer *)

\* C13 as the specification words it: in a session started with the sentinel
\* no line follows BYE on the outbound stream, whenever the timer runs out.
C13_AsClaimed ==
  found # 0 =>
    \A i \in 1..Len(outbound) : outbound[i].tag = "BYE" => i = Len(outbound)

\* fo_scheduler_connect has found the sentinel and returned, and the process
\* runs.
Connected ==
  /\ found # 0
  /\ pc \notin {"main", "connect_init", "connect_ok", "connect_alarm", "exited"}

\* The fgets of fo_scheduler_next waits: the inbound stream is open and holds
\* no line.
Blocked == pc = "next_fgets" /\ ~FgetsReady(stdin, BufSize)

\* C14: every heartbeat arms the timer again, and in a connected session
\* that has seen k heartbeats, k below the number a session of the model
\* may see, one more heartbeat is written or the process terminates --
\* whatever the main flow is doing, waiting in fgets included.
C14_HeartbeatGoesOn ==
  /\ [][BeatStep => alarm']_vars
  /\ \A k \in 0..(MaxTimerBeats - 1) :
       (Connected /\ Beats(outbound) = k)
         ~> (Beats(outbound) > k \/ pc = "exited")

\* The last heartbeat of the session has been written while fgets was waiting
\* for a line, after the end of the work had been signalled once.
C14_Witness ==
  /\ Blocked
  /\ beatDuring = "fgets"
  /\ EndOfWorkRead
  /\ Beats(outbound) = MaxTimerBeats
  /\ outbound[Len(outbound)].tag = "HEART"

\* C15: a heartbeat changes the outbound stream and the timer and nothing
\* else: the inbound stream, the counter, the verbosity, the buffer, valid and
\* found are as before, the main flow is where it was -- an fgets that was
\* waiting still waits -- and current() returns what it returned.
C15_HeartbeatFrame ==
  [][ BeatStep
        => /\ UNCHANGED <<pc, argc, argv, items_processed, buffer, valid, found,
                          verbose, reg, stdin, stdinClosed, pending,
                          linebuf, exitStatus, history, progress>>
           /\ fo_scheduler_current' = fo_scheduler_current
           /\ Blocked => Blocked' ]_vars

\* A heartbeat has gone out while fgets was waiting in the call that follows
\* the return of the line a; fgets still waits and the line is still current.
C15_Witness ==
  /\ Blocked
  /\ beatDuring = "fgets"
  /\ outbound[Len(outbound)].tag = "HEART"
  /\ consumed = <<>>
  /\ ret = <<"a", "\n">>
  /\ fo_scheduler_current = <<"a", "\n">>

-----------------------------------------------------------------------------
(* What one call of fo_scheduler_next takes from the inbound stream *)

\* C16 as the specification words it: when a next() call has returned, what
\* it consumed is a run of whole END, VERBOSE and VERSION lines followed by
\* one whole line that is Data or CLOSE, or by the end of the stream, and
\* nothing after that.
C16_AsClaimed ==
  (BetweenCalls /\ consumed # <<>>) =>
    /\ \A i \in 1..(Len(consumed) - 1) :
         /\ consumed[i] # EOF
         /\ ClassOf(consumed[i]) \in {"End", "Verbose", "Version"}
         /\ consumed[i][Len(consumed[i])] = "\n"
    /\ LET l == consumed[Len(consumed)]
       IN \/ l = EOF
          \/ /\ ClassOf(l) \in {"Data", "Close"}
             /\ l = curLine

\* C17 as the specification words it: whatever a read returns is the start
\* of an inbound record -- the record whole, or cut at the size of the
\* buffer -- and never the bytes left over from a record cut before.
C17_AsClaimed ==
  lastRead \notin {<<>>, EOF} => BeginsWith(curLine, lastRead)

\* The main flow is inside fo_scheduler_next.
InNext == pc \in {"next_flush", "next_fgets"}

\* The lines of the text s, an unfinished last line included.
RECURSIVE LinesOf(_)
LinesOf(s) ==
  IF s = <<>> THEN <<>>
  ELSE LET n == FgetsCount(s, Len(s) + 1)
       IN <<SubSeq(s, 1, n)>> \o LinesOf(SubSeq(s, n + 1, Len(s)))

\* The inbound stream holds what ends a call of fo_scheduler_next: a whole
\* line that is Data or CLOSE, or its end.
Delivered ==
  \/ stdinClosed
  \/ \E i \in 1..Len(LinesOf(stdin)) :
       /\ LinesOf(stdin)[i][Len(LinesOf(stdin)[i])] = "\n"
       /\ ClassOf(LinesOf(stdin)[i]) \in {"Data", "Close"}

\* C18: a next() call returns only in the step in which it has read Data,
\* CLOSE or the end of the stream; while the stream is open and holds no line
\* the call waits, whatever time passes; and once the stream holds a Data or
\* CLOSE line or is closed, the call returns, whatever END, VERBOSE and
\* VERSION lines come first.
C18_NextReturns ==
  /\ [][ (InNext /\ pc' = "idle")
          => (ReadStep /\ ClassOf(lastRead') \in {"Data", "Close"}) ]_vars
  /\ [][ Blocked => pc' = "next_fgets" ]_vars
  /\ (InNext /\ Delivered) ~> (pc = "idle")

\* A call has returned the line a after it read END, VERBOSE 5 and VERSION.
C18_Witness ==
  /\ pc = "idle"
  /\ Len(consumed) = 4
  /\ ClassOf(consumed[1]) = "End"
  /\ ClassOf(consumed[2]) = "Verbose"
  /\ ClassOf(consumed[3]) = "Version"
  /\ ret = <<"a", "\n">>

\* The sums of the arguments of the first k calls of fo_scheduler_heart, for
\* every k.
PrefixSums == {Sum(SubSeq(progress, 1, k)) : k \in 0..Len(progress)}

\* C19: with items_processed += i a load and a store and the heartbeat free
\* to run between them, the counter is the sum of the arguments of the calls
\* made whenever no call is in progress, the store of a call in progress
\* will make it so, and every heartbeat line carries the sum of the arguments
\* of the first k calls, for some k.
C19_NoLostUpdate ==
  /\ pc # "heart_store" => items_processed = Sum(progress)
  /\ pc = "heart_store" => reg = Sum(progress)
  /\ \A i \in 1..Len(AllOutput) :
       AllOutput[i].tag = "HEART" => AllOutput[i].n \in PrefixSums

\* After a call with the argument 3, a heartbeat has reported 3 between the
\* load and the store of the call with the argument 4; the store is about to
\* write 7.
C19_Witness ==
  /\ pc = "heart_store"
  /\ beatDuring = "heart"
  /\ progress = <<3, 4>>
  /\ items_processed = 3
  /\ reg = 7
  /\ outbound[Len(outbound)] = HeartLine(3)

-----------------------------------------------------------------------------
(* fo_scheduler_next in a session without the sentinel *)

\* The lines that answer the strings s read from the inbound stream: OK for
\* END, the version line for VERSION.
RECURSIVE Responses(_)
Responses(s) ==
  IF s = <<>> THEN <<>>
  ELSE (IF ClassOf(Head(s)) = "End" THEN <<OutLine("OK")>>
        ELSE IF ClassOf(Head(s)) = "Version" THEN <<OutLine(SVN_REV)>>
        ELSE <<>>) \o Responses(Tail(s))

\* C20: what a next() call writes is determined by what it has read, OK for
\* every END and the version line for every VERSION, whether or not connect
\* found the sentinel; and all of it is in the output.
C20_SameStandalone ==
  /\ written = Responses(consumed)
  /\ \A i \in 1..Len(written) :
       \E j \in 1..Len(AllOutput) : AllOutput[j] = written[i]

\* In a session without the sentinel a call has read END and VERSION and has
\* written OK and the version line, which are all the output there is.
C20_Witness ==
  /\ found = 0
  /\ pc \notin {"main", "connect_init", "connect_ok"}
  /\ written = <<OutLine("OK"), OutLine(SVN_REV)>>
  /\ AllOutput = written

====
